---- MODULE Spec2Model ----
(***************************************************************************)
(* Model of the Microchip XEC GPIO driver, drivers/gpio/gpio_mchp_xec.c.   *)
(*                                                                         *)
(* One port instance is modelled.  A 32-bit register with one bit per pin  *)
(* is a set of pin indices (BIT(pin) is {pin}, | is \cup, & is \cap and    *)
(* & ~m is \ m).  A pin control register (PCR1) is a record with one       *)
(* component per bit field; a field mask is a set of field names and the   *)
(* masked read-modify-write of the driver replaces the masked fields.      *)
(* Every register access of a driver function is one step, so that the     *)
(* port interrupt service routine can run between any two of them.         *)
(***************************************************************************)
EXTENDS Integers, Naturals, Sequences, FiniteSets, TLC

\* ---------------------------------------------------------------- bounds
NumPins == 3
NumCallbacks == 2

Pins == 0 .. (NumPins - 1)

\* valid_ctrl_masks[config->port_num]: the pins that exist on the port
valid_ctrl_masks == {0, 1}

BIT(p) == {p}

\* ------------------------------------------------------------ error codes
OK == "0"
EINVAL == "-EINVAL"
ENOTSUP == "-ENOTSUP"
NoRet == "none"

\* ------------------------------------------------------------ gpio flags
GPIO_SINGLE_ENDED == "SINGLE_ENDED"
GPIO_LINE_OPEN_DRAIN == "LINE_OPEN_DRAIN"
GPIO_PULL_UP == "PULL_UP"
GPIO_PULL_DOWN == "PULL_DOWN"
GPIO_INPUT == "INPUT"
GPIO_OUTPUT == "OUTPUT"
GPIO_OUTPUT_INIT_LOW == "OUTPUT_INIT_LOW"
GPIO_OUTPUT_INIT_HIGH == "OUTPUT_INIT_HIGH"
\* a flag word is the set of its flag bits
GPIO_OPEN_DRAIN == {GPIO_SINGLE_ENDED, GPIO_LINE_OPEN_DRAIN}
GPIO_DISCONNECTED == {}

\* the flag words the callers of the model pass to gpio_xec_configure
FlagSets ==
  { GPIO_DISCONNECTED,
    {GPIO_INPUT},
    {GPIO_INPUT, GPIO_PULL_UP},
    {GPIO_INPUT, GPIO_PULL_DOWN, GPIO_PULL_UP},
    {GPIO_INPUT, GPIO_PULL_DOWN},
    {GPIO_OUTPUT},
    {GPIO_OUTPUT, GPIO_OUTPUT_INIT_HIGH},
    {GPIO_OUTPUT, GPIO_OUTPUT_INIT_LOW},
    {GPIO_OUTPUT, GPIO_OUTPUT_INIT_LOW, GPIO_OUTPUT_INIT_HIGH},
    {GPIO_OUTPUT, GPIO_OUTPUT_INIT_HIGH, GPIO_SINGLE_ENDED, GPIO_LINE_OPEN_DRAIN},
    {GPIO_OUTPUT, GPIO_OUTPUT_INIT_LOW, GPIO_LINE_OPEN_DRAIN},
    {GPIO_SINGLE_ENDED},
    {GPIO_OUTPUT, GPIO_OUTPUT_INIT_HIGH, GPIO_SINGLE_ENDED},
    {GPIO_OUTPUT_INIT_HIGH} }

\* -------------------------------------------------- pin control register
MCHP_GPIO_CTRL_DIR_MASK == "dir"
MCHP_GPIO_CTRL_INPAD_DIS_MASK == "inpad_dis"
MCHP_GPIO_CTRL_PWRG_MASK == "pwrg"
MCHP_GPIO_CTRL_PUD_MASK == "pud"
MCHP_GPIO_CTRL_BUFT_MASK == "buft"
MCHP_GPIO_CTRL_AOD_MASK == "aod"
MCHP_GPIO_CTRL_IDET_MASK == "idet"
\* the fields the driver never names (alternate function, polarity)
CTRL_OTHER_MASK == "other"

CtrlFields ==
  { MCHP_GPIO_CTRL_DIR_MASK, MCHP_GPIO_CTRL_INPAD_DIS_MASK,
    MCHP_GPIO_CTRL_PWRG_MASK, MCHP_GPIO_CTRL_PUD_MASK,
    MCHP_GPIO_CTRL_BUFT_MASK, MCHP_GPIO_CTRL_AOD_MASK,
    MCHP_GPIO_CTRL_IDET_MASK, CTRL_OTHER_MASK }

MCHP_GPIO_CTRL_DIR_INPUT == "input"
MCHP_GPIO_CTRL_DIR_OUTPUT == "output"
MCHP_GPIO_CTRL_PUD_NONE == "none"
MCHP_GPIO_CTRL_PUD_PU == "pull_up"
MCHP_GPIO_CTRL_PUD_PD == "pull_down"
MCHP_GPIO_CTRL_BUFT_PUSHPULL == "push_pull"
MCHP_GPIO_CTRL_BUFT_OPENDRAIN == "open_drain"
MCHP_GPIO_CTRL_AOD_EN == "aod_en"
MCHP_GPIO_CTRL_AOD_DIS == "aod_dis"
MCHP_GPIO_CTRL_PWRG_VTR_IO == "vtr_io"
MCHP_GPIO_CTRL_PWRG_OFF == "off"
MCHP_GPIO_CTRL_INPAD_EN == "inpad_en"
MCHP_GPIO_CTRL_INPAD_DIS == "inpad_off"
MCHP_GPIO_CTRL_IDET_LVL_LO == "level_low"
MCHP_GPIO_CTRL_IDET_LVL_HI == "level_high"
MCHP_GPIO_CTRL_IDET_DISABLE == "disabled"
MCHP_GPIO_CTRL_IDET_REDGE == "rising_edge"
MCHP_GPIO_CTRL_IDET_FEDGE == "falling_edge"
MCHP_GPIO_CTRL_IDET_BEDGE == "both_edges"
CTRL_OTHER_GPIO == "mux_gpio"
CTRL_OTHER_ALT == "mux_alt"

\* uint32_t pcr1 = 0U: every field holds its all-zero encoding
Pcr1Zero ==
  [ dir |-> MCHP_GPIO_CTRL_DIR_INPUT,
    inpad_dis |-> MCHP_GPIO_CTRL_INPAD_EN,
    pwrg |-> MCHP_GPIO_CTRL_PWRG_VTR_IO,
    pud |-> MCHP_GPIO_CTRL_PUD_NONE,
    buft |-> MCHP_GPIO_CTRL_BUFT_PUSHPULL,
    aod |-> MCHP_GPIO_CTRL_AOD_EN,
    idet |-> MCHP_GPIO_CTRL_IDET_LVL_LO,
    other |-> CTRL_OTHER_GPIO ]

\* a control word left behind by other software: every field differs
\* from the value gpio_xec_configure programs
Pcr1Foreign ==
  [ dir |-> MCHP_GPIO_CTRL_DIR_OUTPUT,
    inpad_dis |-> MCHP_GPIO_CTRL_INPAD_DIS,
    pwrg |-> MCHP_GPIO_CTRL_PWRG_OFF,
    pud |-> MCHP_GPIO_CTRL_PUD_PU,
    buft |-> MCHP_GPIO_CTRL_BUFT_OPENDRAIN,
    aod |-> MCHP_GPIO_CTRL_AOD_EN,
    idet |-> MCHP_GPIO_CTRL_IDET_BEDGE,
    other |-> CTRL_OTHER_ALT ]

InitCtrl == {Pcr1Zero, Pcr1Foreign}

\* every control word the fields' encodings used by the driver can form
CtrlWords ==
  [ dir : {MCHP_GPIO_CTRL_DIR_INPUT, MCHP_GPIO_CTRL_DIR_OUTPUT},
    inpad_dis : {MCHP_GPIO_CTRL_INPAD_EN, MCHP_GPIO_CTRL_INPAD_DIS},
    pwrg : {MCHP_GPIO_CTRL_PWRG_VTR_IO, MCHP_GPIO_CTRL_PWRG_OFF},
    pud : {MCHP_GPIO_CTRL_PUD_NONE, MCHP_GPIO_CTRL_PUD_PU, MCHP_GPIO_CTRL_PUD_PD},
    buft : {MCHP_GPIO_CTRL_BUFT_PUSHPULL, MCHP_GPIO_CTRL_BUFT_OPENDRAIN},
    aod : {MCHP_GPIO_CTRL_AOD_EN, MCHP_GPIO_CTRL_AOD_DIS},
    idet : {MCHP_GPIO_CTRL_IDET_LVL_LO, MCHP_GPIO_CTRL_IDET_LVL_HI,
            MCHP_GPIO_CTRL_IDET_DISABLE, MCHP_GPIO_CTRL_IDET_REDGE,
            MCHP_GPIO_CTRL_IDET_FEDGE, MCHP_GPIO_CTRL_IDET_BEDGE},
    other : {CTRL_OTHER_GPIO, CTRL_OTHER_ALT} ]

\* pcr1 |= value: the value's field replaces the (still zero) field
OrField(word, field, value) == [word EXCEPT ![field] = value]

\* the register replaced wholesale by pcr1, without the & ~mask term
MaskedWrite_wholesale(old, mask, pcr1) == pcr1

\* *current_pcr1 ^ pcr1 within mask: a field already holding pcr1's value
\* falls back to zero
MaskedWrite_toggle(old, mask, pcr1) ==
  [f \in CtrlFields |-> IF f \in mask
                          THEN IF old[f] = pcr1[f] THEN Pcr1Zero[f] ELSE pcr1[f]
                          ELSE old[f]]

\* (*current_pcr1 & ~mask) | pcr1, for a pcr1 whose fields outside mask
\* are zero (the driver only ORs values of masked fields into pcr1)
MaskedWrite(old, mask, pcr1) ==
  [f \in CtrlFields |-> IF f \in mask THEN pcr1[f] ELSE old[f]]

\* ------------------------------------------------------ port descriptor
MCHP_GIRQ11_ID == 3
\* girq_id of a descriptor that does not set it (static storage)
GIRQ_ID_UNSET == 0
GPIO_INT_ENABLE == "INT_ENABLE"
GirqIds == {GIRQ_ID_UNSET, MCHP_GIRQ11_ID}

\* gpio_xec_port000_036_config, with and without an irq cell
gpio_xec_port000_036_config ==
  { [girq_id |-> MCHP_GIRQ11_ID, flags |-> {GPIO_INT_ENABLE}],
    [girq_id |-> GIRQ_ID_UNSET, flags |-> {}] }

\* ------------------------------------------------------------- the state
VARIABLES
  config,      \* the port's struct gpio_xec_config
  pcr,         \* pcr1_base[pin]: the pin control registers
  gpio_out,    \* GPIO_OUT_BASE(config): the port output register
  girq_en,     \* aggregator enable bits, per GIRQ id
  girq_src,    \* aggregator source (latched event) bits, per GIRQ id
  callbacks,   \* data->callbacks: the registered callbacks
  pc,          \* position of the thread inside a driver function
  pin, flags, mode, trig,   \* arguments of the function in progress
  mask, value, \* arguments of the port functions; *value of port_get_raw
  rd,          \* register value read by the read-modify-write in progress
  ret,         \* return value, once the function has reached its return
  wlog,        \* register writes of the function in progress, in order
  isr_pc,      \* position of the port interrupt service routine
  girq_result, \* its local girq_result
  isr_log      \* what the routine in progress has done, in order

vars == << config, pcr, gpio_out, girq_en, girq_src, callbacks,
           pc, pin, flags, mode, trig, mask, value, rd, ret, wlog,
           isr_pc, girq_result, isr_log >>

regs == << pcr, gpio_out, girq_en, girq_src >>
args == << pin, flags, mode, trig, mask, value >>
isr_vars == << isr_pc, girq_result, isr_log >>

NoPin == NumPins
NoMode == "none"
NoTrig == "none"
NoRd == "none"

\* one entry of wlog: register, value before and value after the write
WriteRec(reg, old, new) == [reg |-> reg, old |-> old, new |-> new]
RegNames(log) == [i \in DOMAIN log |-> log[i].reg]

\* ------------------------------------------------- gpio_xec_configure
\* the mask assembled at lines 88-120
cfg_mask ==
  { MCHP_GPIO_CTRL_DIR_MASK, MCHP_GPIO_CTRL_INPAD_DIS_MASK,
    MCHP_GPIO_CTRL_PWRG_MASK, MCHP_GPIO_CTRL_PUD_MASK,
    MCHP_GPIO_CTRL_BUFT_MASK, MCHP_GPIO_CTRL_AOD_MASK }

\* cfg_pcr1 with the requested direction already in the first write
cfg_pcr1_direction_first(f) ==
  LET w0 == OrField(Pcr1Zero, MCHP_GPIO_CTRL_DIR_MASK,
                    IF GPIO_OUTPUT \in f THEN MCHP_GPIO_CTRL_DIR_OUTPUT
                                         ELSE MCHP_GPIO_CTRL_DIR_INPUT)
      w1 == IF GPIO_PULL_UP \in f
              THEN OrField(w0, MCHP_GPIO_CTRL_PUD_MASK, MCHP_GPIO_CTRL_PUD_PU)
              ELSE IF GPIO_PULL_DOWN \in f
                THEN OrField(w0, MCHP_GPIO_CTRL_PUD_MASK, MCHP_GPIO_CTRL_PUD_PD)
                ELSE w0
      w2 == IF (f \cap GPIO_OPEN_DRAIN) # {}
              THEN OrField(w1, MCHP_GPIO_CTRL_BUFT_MASK, MCHP_GPIO_CTRL_BUFT_OPENDRAIN)
              ELSE OrField(w1, MCHP_GPIO_CTRL_BUFT_MASK, MCHP_GPIO_CTRL_BUFT_PUSHPULL)
      w3 == OrField(w2, MCHP_GPIO_CTRL_AOD_MASK, MCHP_GPIO_CTRL_AOD_DIS)
  IN  IF f = GPIO_DISCONNECTED
        THEN OrField(w3, MCHP_GPIO_CTRL_PWRG_MASK, MCHP_GPIO_CTRL_PWRG_OFF)
        ELSE w3

\* the value pcr1 assembled at lines 91-126
cfg_pcr1(f) ==
  LET w0 == OrField(Pcr1Zero, MCHP_GPIO_CTRL_DIR_MASK, MCHP_GPIO_CTRL_DIR_INPUT)
      w1 == IF GPIO_PULL_UP \in f
              THEN OrField(w0, MCHP_GPIO_CTRL_PUD_MASK, MCHP_GPIO_CTRL_PUD_PU)
              ELSE IF GPIO_PULL_DOWN \in f
                THEN OrField(w0, MCHP_GPIO_CTRL_PUD_MASK, MCHP_GPIO_CTRL_PUD_PD)
                ELSE w0
      w2 == IF (f \cap GPIO_OPEN_DRAIN) # {}
              THEN OrField(w1, MCHP_GPIO_CTRL_BUFT_MASK, MCHP_GPIO_CTRL_BUFT_OPENDRAIN)
              ELSE OrField(w1, MCHP_GPIO_CTRL_BUFT_MASK, MCHP_GPIO_CTRL_BUFT_PUSHPULL)
      w3 == OrField(w2, MCHP_GPIO_CTRL_AOD_MASK, MCHP_GPIO_CTRL_AOD_DIS)
  IN  IF f = GPIO_DISCONNECTED
        THEN OrField(w3, MCHP_GPIO_CTRL_PWRG_MASK, MCHP_GPIO_CTRL_PWRG_OFF)
        ELSE w3

\* cfg_validate testing the whole GPIO_OPEN_DRAIN mask, which contains
\* GPIO_SINGLE_ENDED itself
cfg_validate_open_drain_mask(p, f) ==
  IF (valid_ctrl_masks \cap BIT(p)) = {} THEN EINVAL
  ELSE IF GPIO_SINGLE_ENDED \in f /\ (f \cap GPIO_OPEN_DRAIN) = {} THEN ENOTSUP
  ELSE OK

\* the checks at lines 71-80: the error code, or OK
cfg_validate(p, f) ==
  IF (valid_ctrl_masks \cap BIT(p)) = {} THEN EINVAL
  ELSE IF GPIO_SINGLE_ENDED \in f /\ GPIO_LINE_OPEN_DRAIN \notin f THEN ENOTSUP
  ELSE OK

\* entry of gpio_xec_configure up to the first register access
gpio_xec_configure(p, f) ==
  /\ pc = "idle" /\ isr_pc = "idle"
  /\ pin' = p /\ flags' = f
  /\ wlog' = << >>
  /\ IF cfg_validate(p, f) = OK
       THEN pc' = "cfg_rd1" /\ ret' = NoRet
       ELSE pc' = "cfg_ret" /\ ret' = cfg_validate(p, f)
  /\ UNCHANGED << config, regs, callbacks, mode, trig, mask, value, rd, isr_vars >>

\* line 135, the read of *current_pcr1
cfg_rd1 ==
  /\ pc = "cfg_rd1" /\ isr_pc = "idle"
  /\ rd' = pcr[pin]
  /\ pc' = "cfg_wr1"
  /\ UNCHANGED << config, regs, callbacks, args, ret, wlog, isr_vars >>

\* line 135, the write of *current_pcr1, and the branch at lines 137-140
cfg_wr1 ==
  /\ pc = "cfg_wr1" /\ isr_pc = "idle"
  /\ LET new == MaskedWrite(rd, cfg_mask, cfg_pcr1(flags))
     IN  /\ pcr' = [pcr EXCEPT ![pin] = new]
         /\ wlog' = Append(wlog, WriteRec("PCR1", pcr[pin], new))
  /\ rd' = NoRd
  /\ IF GPIO_OUTPUT \in flags
       THEN /\ ret' = ret
            /\ pc' = IF GPIO_OUTPUT_INIT_HIGH \in flags \/ GPIO_OUTPUT_INIT_LOW \in flags
                       THEN "cfg_out_rd" ELSE "cfg_dir_rd"
       ELSE pc' = "cfg_ret" /\ ret' = OK
  /\ UNCHANGED << config, gpio_out, girq_en, girq_src, callbacks, args, isr_vars >>

\* lines 139 and 141, the read of *gpio_out_reg
cfg_out_rd ==
  /\ pc = "cfg_out_rd" /\ isr_pc = "idle"
  /\ rd' = gpio_out
  /\ pc' = "cfg_out_wr"
  /\ UNCHANGED << config, regs, callbacks, args, ret, wlog, isr_vars >>

\* cfg_out_wr testing GPIO_OUTPUT_INIT_LOW before GPIO_OUTPUT_INIT_HIGH
cfg_out_wr_low_first ==
  /\ pc = "cfg_out_wr" /\ isr_pc = "idle"
  /\ LET new == IF GPIO_OUTPUT_INIT_LOW \in flags
                  THEN rd \ BIT(pin)
                  ELSE rd \cup BIT(pin)
     IN  /\ gpio_out' = new
         /\ wlog' = Append(wlog, WriteRec("OUT", gpio_out, new))
  /\ rd' = NoRd
  /\ pc' = "cfg_dir_rd"
  /\ UNCHANGED << config, pcr, girq_en, girq_src, callbacks, args, ret, isr_vars >>

\* lines 138-142, the write of *gpio_out_reg
cfg_out_wr ==
  /\ pc = "cfg_out_wr" /\ isr_pc = "idle"
  /\ LET new == IF GPIO_OUTPUT_INIT_HIGH \in flags
                  THEN rd \cup BIT(pin)
                  ELSE rd \ BIT(pin)
     IN  /\ gpio_out' = new
         /\ wlog' = Append(wlog, WriteRec("OUT", gpio_out, new))
  /\ rd' = NoRd
  /\ pc' = "cfg_dir_rd"
  /\ UNCHANGED << config, pcr, girq_en, girq_src, callbacks, args, ret, isr_vars >>

\* line 146, the read of *current_pcr1
cfg_dir_rd ==
  /\ pc = "cfg_dir_rd" /\ isr_pc = "idle"
  /\ rd' = pcr[pin]
  /\ pc' = "cfg_dir_wr"
  /\ UNCHANGED << config, regs, callbacks, args, ret, wlog, isr_vars >>

\* lines 144-146, the write of the direction field, and return 0
cfg_dir_wr ==
  /\ pc = "cfg_dir_wr" /\ isr_pc = "idle"
  /\ LET new == MaskedWrite(rd, {MCHP_GPIO_CTRL_DIR_MASK},
                   OrField(Pcr1Zero, MCHP_GPIO_CTRL_DIR_MASK, MCHP_GPIO_CTRL_DIR_OUTPUT))
     IN  /\ pcr' = [pcr EXCEPT ![pin] = new]
         /\ wlog' = Append(wlog, WriteRec("PCR1", pcr[pin], new))
  /\ rd' = NoRd
  /\ pc' = "cfg_ret" /\ ret' = OK
  /\ UNCHANGED << config, gpio_out, girq_en, girq_src, callbacks, args, isr_vars >>

\* the caller of a successful gpio_xec_configure calls it again with the
\* same pin and flags; the control word between the calls is noted in wlog
configure_again ==
  /\ pc = "cfg_ret" /\ ret = OK /\ isr_pc = "idle"
  /\ \A i \in DOMAIN wlog : wlog[i].reg # "CALL"
  /\ wlog' = Append(wlog, WriteRec("CALL", pcr[pin], pcr[pin]))
  /\ pc' = "cfg_rd1" /\ ret' = NoRet
  /\ UNCHANGED << config, regs, callbacks, args, rd, isr_vars >>

\* --------------------------------------------- the port-wide operations
\* (out & ~mask) | value: the value is not confined to the mask
set_masked_value_unmasked(out, m, v) == (out \ m) \cup v

\* line 240: (*gpio_base & ~mask) | (mask & value)
set_masked(out, m, v) == (out \ m) \cup (m \cap v)

\* *gpio_base = mask: the register is assigned, the prior bits are dropped
set_bits_assign(out, m) == m

\* line 252: *gpio_base |= mask
set_bits(out, m) == out \cup m

\* line 265: *gpio_base &= ~mask
clear_bits(out, m) == out \ m

\* *gpio_base |= mask in place of the exclusive or
toggle_bits_or(out, m) == out \cup m

\* line 277: *gpio_base ^= mask
toggle_bits(out, m) == (out \ m) \cup (m \ out)

\* the port input register, in a harness where the pins are not driven
\* from outside: it mirrors the port output register
gpio_in == gpio_out

\* gpio_xec_port_set_masked_raw up to the read of *gpio_base at line 240
gpio_xec_port_set_masked_raw(m, v) ==
  /\ pc = "idle" /\ isr_pc = "idle"
  /\ mask' = m /\ value' = v
  /\ wlog' = << >> /\ ret' = NoRet
  /\ rd' = gpio_out
  /\ pc' = "set_masked_wr"
  /\ UNCHANGED << config, regs, callbacks, pin, flags, mode, trig, isr_vars >>

\* line 240, the write of *gpio_base, and return 0
set_masked_wr ==
  /\ pc = "set_masked_wr" /\ isr_pc = "idle"
  /\ gpio_out' = set_masked(rd, mask, value)
  /\ wlog' = Append(wlog, WriteRec("OUT", gpio_out, gpio_out'))
  /\ rd' = NoRd
  /\ pc' = "set_masked_ret" /\ ret' = OK
  /\ UNCHANGED << config, pcr, girq_en, girq_src, callbacks, args, isr_vars >>

\* gpio_xec_port_set_bits_raw up to the read of *gpio_base at line 252
gpio_xec_port_set_bits_raw(m) ==
  /\ pc = "idle" /\ isr_pc = "idle"
  /\ mask' = m
  /\ wlog' = << >> /\ ret' = NoRet
  /\ rd' = gpio_out
  /\ pc' = "set_bits_wr"
  /\ UNCHANGED << config, regs, callbacks, pin, flags, mode, trig, value, isr_vars >>

\* line 252, the write of *gpio_base, and return 0
set_bits_wr ==
  /\ pc = "set_bits_wr" /\ isr_pc = "idle"
  /\ gpio_out' = set_bits(rd, mask)
  /\ wlog' = Append(wlog, WriteRec("OUT", gpio_out, gpio_out'))
  /\ rd' = NoRd
  /\ pc' = "set_bits_ret" /\ ret' = OK
  /\ UNCHANGED << config, pcr, girq_en, girq_src, callbacks, args, isr_vars >>

\* gpio_xec_port_clear_bits_raw up to the read of *gpio_base at line 265
gpio_xec_port_clear_bits_raw(m) ==
  /\ pc = "idle" /\ isr_pc = "idle"
  /\ mask' = m
  /\ wlog' = << >> /\ ret' = NoRet
  /\ rd' = gpio_out
  /\ pc' = "clear_bits_wr"
  /\ UNCHANGED << config, regs, callbacks, pin, flags, mode, trig, value, isr_vars >>

\* line 265, the write of *gpio_base, and return 0
clear_bits_wr ==
  /\ pc = "clear_bits_wr" /\ isr_pc = "idle"
  /\ gpio_out' = clear_bits(rd, mask)
  /\ wlog' = Append(wlog, WriteRec("OUT", gpio_out, gpio_out'))
  /\ rd' = NoRd
  /\ pc' = "clear_bits_ret" /\ ret' = OK
  /\ UNCHANGED << config, pcr, girq_en, girq_src, callbacks, args, isr_vars >>

\* gpio_xec_port_toggle_bits up to the read of *gpio_base at line 277
gpio_xec_port_toggle_bits(m) ==
  /\ pc = "idle" /\ isr_pc = "idle"
  /\ mask' = m
  /\ wlog' = << >> /\ ret' = NoRet
  /\ rd' = gpio_out
  /\ pc' = "toggle_bits_wr"
  /\ UNCHANGED << config, regs, callbacks, pin, flags, mode, trig, value, isr_vars >>

\* line 277, the write of *gpio_base, and return 0
toggle_bits_wr ==
  /\ pc = "toggle_bits_wr" /\ isr_pc = "idle"
  /\ gpio_out' = toggle_bits(rd, mask)
  /\ wlog' = Append(wlog, WriteRec("OUT", gpio_out, gpio_out'))
  /\ rd' = NoRd
  /\ pc' = "toggle_bits_ret" /\ ret' = OK
  /\ UNCHANGED << config, pcr, girq_en, girq_src, callbacks, args, isr_vars >>

\* gpio_xec_port_get_raw: *value = *gpio_base at line 289, and return 0
gpio_xec_port_get_raw ==
  /\ pc = "idle" /\ isr_pc = "idle"
  /\ value' = gpio_in
  /\ wlog' = << >>
  /\ pc' = "get_ret" /\ ret' = OK
  /\ UNCHANGED << config, regs, callbacks, pin, flags, mode, trig, mask, rd, isr_vars >>

\* the caller of gpio_xec_port_set_bits_raw calls gpio_xec_port_get_raw
\* next; the mask and the write of the first call stay on record
get_after_set_bits ==
  /\ pc = "set_bits_ret" /\ isr_pc = "idle"
  /\ value' = gpio_in
  /\ pc' = "get_ret" /\ ret' = OK
  /\ UNCHANGED << config, regs, callbacks, pin, flags, mode, trig, mask, rd,
                  wlog, isr_vars >>

\* the caller of gpio_xec_port_toggle_bits calls it again with the same
\* mask; the write of the first call stays on record
toggle_again ==
  /\ pc = "toggle_bits_ret" /\ isr_pc = "idle"
  /\ Len(wlog) = 1
  /\ rd' = gpio_out
  /\ pc' = "toggle_bits_wr" /\ ret' = NoRet
  /\ UNCHANGED << config, regs, callbacks, args, wlog, isr_vars >>

\* the positions at which a driver function has reached its return
RetPcs ==
  { "cfg_ret", "int_ret", "cb_ret", "set_masked_ret", "set_bits_ret",
    "clear_bits_ret", "toggle_bits_ret", "get_ret" }

\* the caller takes the return value; the thread is back outside the driver
thread_return ==
  /\ pc \in RetPcs /\ isr_pc = "idle"
  /\ pc' = "idle"
  /\ pin' = NoPin /\ flags' = {} /\ mode' = NoMode /\ trig' = NoTrig
  /\ mask' = {} /\ value' = {}
  /\ ret' = NoRet /\ wlog' = << >>
  /\ UNCHANGED << config, regs, callbacks, rd, isr_vars >>

\* the caller takes the return value and makes no further call
thread_exit ==
  /\ pc \in RetPcs /\ isr_pc = "idle"
  /\ pc' = "exit"
  /\ pin' = NoPin /\ flags' = {} /\ mode' = NoMode /\ trig' = NoTrig
  /\ mask' = {} /\ value' = {}
  /\ ret' = NoRet /\ wlog' = << >>
  /\ UNCHANGED << config, regs, callbacks, rd, isr_vars >>

\* ------------------------------------ gpio_xec_pin_interrupt_configure
GPIO_INT_MODE_DISABLED == "MODE_DISABLED"
GPIO_INT_MODE_LEVEL == "MODE_LEVEL"
GPIO_INT_MODE_EDGE == "MODE_EDGE"
GPIO_INT_TRIG_LOW == "TRIG_LOW"
GPIO_INT_TRIG_HIGH == "TRIG_HIGH"
GPIO_INT_TRIG_BOTH == "TRIG_BOTH"
\* a value of the argument that is none of the enumerators
GPIO_INT_TRIG_OTHER == "TRIG_OTHER"

IntModes == {GPIO_INT_MODE_DISABLED, GPIO_INT_MODE_LEVEL, GPIO_INT_MODE_EDGE}
IntTrigEnum == {GPIO_INT_TRIG_LOW, GPIO_INT_TRIG_HIGH, GPIO_INT_TRIG_BOTH}
IntTrigs == IntTrigEnum \cup {GPIO_INT_TRIG_OTHER}

\* int_validate testing the pin against the width of the register only
int_validate_pin_range(cfg, p, m) ==
  IF p \notin Pins THEN EINVAL
  ELSE IF m # GPIO_INT_MODE_DISABLED /\ GPIO_INT_ENABLE \notin cfg.flags THEN ENOTSUP
  ELSE OK

\* the checks at lines 163-172: the error code, or OK
int_validate(cfg, p, m) ==
  IF (valid_ctrl_masks \cap BIT(p)) = {} THEN EINVAL
  ELSE IF m # GPIO_INT_MODE_DISABLED /\ GPIO_INT_ENABLE \notin cfg.flags THEN ENOTSUP
  ELSE OK

\* int_idet with the switch lacking its default case: gpio_interrupt
\* stays 0
int_idet_no_default(m, t) ==
  IF m = GPIO_INT_MODE_DISABLED THEN MCHP_GPIO_CTRL_IDET_DISABLE
  ELSE IF m = GPIO_INT_MODE_LEVEL
    THEN IF t = GPIO_INT_TRIG_HIGH
           THEN MCHP_GPIO_CTRL_IDET_LVL_HI
           ELSE MCHP_GPIO_CTRL_IDET_LVL_LO
    ELSE CASE t = GPIO_INT_TRIG_LOW -> MCHP_GPIO_CTRL_IDET_FEDGE
           [] t = GPIO_INT_TRIG_HIGH -> MCHP_GPIO_CTRL_IDET_REDGE
           [] t = GPIO_INT_TRIG_BOTH -> MCHP_GPIO_CTRL_IDET_BEDGE
           [] OTHER -> MCHP_GPIO_CTRL_IDET_LVL_LO

\* int_idet leaving pcr1 at 0 for mode Disabled
int_idet_no_disable(m, t) ==
  IF m = GPIO_INT_MODE_DISABLED THEN MCHP_GPIO_CTRL_IDET_LVL_LO
  ELSE IF m = GPIO_INT_MODE_LEVEL
    THEN IF t = GPIO_INT_TRIG_HIGH
           THEN MCHP_GPIO_CTRL_IDET_LVL_HI
           ELSE MCHP_GPIO_CTRL_IDET_LVL_LO
    ELSE CASE t = GPIO_INT_TRIG_LOW -> MCHP_GPIO_CTRL_IDET_FEDGE
           [] t = GPIO_INT_TRIG_HIGH -> MCHP_GPIO_CTRL_IDET_REDGE
           [] t = GPIO_INT_TRIG_BOTH -> MCHP_GPIO_CTRL_IDET_BEDGE
           [] OTHER -> EINVAL

\* int_idet with the two single-edge cases exchanged
int_idet_edges_swapped(m, t) ==
  IF m = GPIO_INT_MODE_DISABLED THEN MCHP_GPIO_CTRL_IDET_DISABLE
  ELSE IF m = GPIO_INT_MODE_LEVEL
    THEN IF t = GPIO_INT_TRIG_HIGH
           THEN MCHP_GPIO_CTRL_IDET_LVL_HI
           ELSE MCHP_GPIO_CTRL_IDET_LVL_LO
    ELSE CASE t = GPIO_INT_TRIG_LOW -> MCHP_GPIO_CTRL_IDET_REDGE
           [] t = GPIO_INT_TRIG_HIGH -> MCHP_GPIO_CTRL_IDET_FEDGE
           [] t = GPIO_INT_TRIG_BOTH -> MCHP_GPIO_CTRL_IDET_BEDGE
           [] OTHER -> EINVAL

\* lines 180-211: the detection mode ORed into pcr1, or EINVAL for the
\* default case of the switch
int_idet(m, t) ==
  IF m = GPIO_INT_MODE_DISABLED THEN MCHP_GPIO_CTRL_IDET_DISABLE
  ELSE IF m = GPIO_INT_MODE_LEVEL
    THEN IF t = GPIO_INT_TRIG_HIGH
           THEN MCHP_GPIO_CTRL_IDET_LVL_HI
           ELSE MCHP_GPIO_CTRL_IDET_LVL_LO
    ELSE CASE t = GPIO_INT_TRIG_LOW -> MCHP_GPIO_CTRL_IDET_FEDGE
           [] t = GPIO_INT_TRIG_HIGH -> MCHP_GPIO_CTRL_IDET_REDGE
           [] t = GPIO_INT_TRIG_BOTH -> MCHP_GPIO_CTRL_IDET_BEDGE
           [] OTHER -> EINVAL

\* entry of gpio_xec_pin_interrupt_configure up to the first register access
gpio_xec_pin_interrupt_configure(p, m, t) ==
  /\ pc = "idle" /\ isr_pc = "idle"
  /\ pin' = p /\ mode' = m /\ trig' = t
  /\ wlog' = << >>
  /\ IF int_validate(config, p, m) = OK
       THEN pc' = "int_enclr" /\ ret' = NoRet
       ELSE pc' = "int_ret" /\ ret' = int_validate(config, p, m)
  /\ UNCHANGED << config, regs, callbacks, flags, mask, value, rd, isr_vars >>

\* int_enclr without the write of the enable-clear register
int_enclr_omitted ==
  /\ pc = "int_enclr" /\ isr_pc = "idle"
  /\ wlog' = Append(wlog, WriteRec("GIRQ_ENCLR", girq_en[config.girq_id],
                                   girq_en[config.girq_id]))
  /\ IF int_idet(mode, trig) = EINVAL
       THEN pc' = "int_ret" /\ ret' = EINVAL
       ELSE pc' = "int_rd" /\ ret' = ret
  /\ UNCHANGED << config, regs, callbacks, args, rd, isr_vars >>

\* int_enclr writing BIT(pin) to the enable-set register instead
int_enclr_enset ==
  /\ pc = "int_enclr" /\ isr_pc = "idle"
  /\ LET new == girq_en[config.girq_id] \cup BIT(pin)
     IN  /\ girq_en' = [girq_en EXCEPT ![config.girq_id] = new]
         /\ wlog' = Append(wlog, WriteRec("GIRQ_ENCLR", girq_en[config.girq_id], new))
  /\ IF int_idet(mode, trig) = EINVAL
       THEN pc' = "int_ret" /\ ret' = EINVAL
       ELSE pc' = "int_rd" /\ ret' = ret
  /\ UNCHANGED << config, pcr, gpio_out, girq_src, callbacks, args, rd, isr_vars >>

\* line 175, the write of the enable-clear register, then lines 177-211
int_enclr ==
  /\ pc = "int_enclr" /\ isr_pc = "idle"
  /\ LET new == girq_en[config.girq_id] \ BIT(pin)
     IN  /\ girq_en' = [girq_en EXCEPT ![config.girq_id] = new]
         /\ wlog' = Append(wlog, WriteRec("GIRQ_ENCLR", girq_en[config.girq_id], new))
  /\ IF int_idet(mode, trig) = EINVAL
       THEN pc' = "int_ret" /\ ret' = EINVAL
       ELSE pc' = "int_rd" /\ ret' = ret
  /\ UNCHANGED << config, pcr, gpio_out, girq_src, callbacks, args, rd, isr_vars >>

\* line 217, the read of *current_pcr1
int_rd ==
  /\ pc = "int_rd" /\ isr_pc = "idle"
  /\ rd' = pcr[pin]
  /\ pc' = "int_wr"
  /\ UNCHANGED << config, regs, callbacks, args, ret, wlog, isr_vars >>

\* lines 217-218, the write of *current_pcr1, and the branch at line 220
int_wr ==
  /\ pc = "int_wr" /\ isr_pc = "idle"
  /\ LET new == MaskedWrite(rd, {MCHP_GPIO_CTRL_IDET_MASK},
                   OrField(Pcr1Zero, MCHP_GPIO_CTRL_IDET_MASK, int_idet(mode, trig)))
     IN  /\ pcr' = [pcr EXCEPT ![pin] = new]
         /\ wlog' = Append(wlog, WriteRec("PCR1", pcr[pin], new))
  /\ rd' = NoRd
  /\ IF mode # GPIO_INT_MODE_DISABLED
       THEN pc' = "int_srcclr" /\ ret' = ret
       ELSE pc' = "int_ret" /\ ret' = OK
  /\ UNCHANGED << config, gpio_out, girq_en, girq_src, callbacks, args, isr_vars >>

\* line 224, MCHP_GIRQ_SRC_CLR: the pin's bit written to the source register
int_srcclr ==
  /\ pc = "int_srcclr" /\ isr_pc = "idle"
  /\ LET new == girq_src[config.girq_id] \ BIT(pin)
     IN  /\ girq_src' = [girq_src EXCEPT ![config.girq_id] = new]
         /\ wlog' = Append(wlog, WriteRec("GIRQ_SRC", girq_src[config.girq_id], new))
  /\ pc' = "int_enset"
  /\ UNCHANGED << config, pcr, gpio_out, girq_en, callbacks, args, rd, ret, isr_vars >>

\* line 225, the write of the enable-set register, and return 0
int_enset ==
  /\ pc = "int_enset" /\ isr_pc = "idle"
  /\ LET new == girq_en[config.girq_id] \cup BIT(pin)
     IN  /\ girq_en' = [girq_en EXCEPT ![config.girq_id] = new]
         /\ wlog' = Append(wlog, WriteRec("GIRQ_ENSET", girq_en[config.girq_id], new))
  /\ pc' = "int_ret" /\ ret' = OK
  /\ UNCHANGED << config, pcr, gpio_out, girq_src, callbacks, args, rd, isr_vars >>

\* ---------------------------------------------- the callback registry
Callbacks == 1 .. NumCallbacks

\* cb->pin_mask of callback c: the pins whose bit is set in the number c
pin_mask(c) == {p \in Pins : (c \div (2 ^ p)) % 2 = 1}

\* gpio_manage_callback: the callback is taken out of the registry and,
\* when set, put into it
gpio_manage_callback(list, c, set) ==
  IF set THEN (list \ {c}) \cup {c} ELSE list \ {c}

\* gpio_xec_manage_callback, lines 294-302
gpio_xec_manage_callback(c, set) ==
  /\ pc = "idle" /\ isr_pc = "idle"
  /\ callbacks' = gpio_manage_callback(callbacks, c, set)
  /\ wlog' = << >>
  /\ pc' = "cb_ret" /\ ret' = OK
  /\ UNCHANGED << config, regs, args, rd, isr_vars >>

\* the function in progress has reached its return statement; the return
\* itself takes no time, so nothing else happens before thread_return
AtReturn == pc \in RetPcs

\* ------------------------------------------------ the hardware events
\* the detection circuit of a pin latches the pin's aggregator source bit
pin_event(p) ==
  /\ ~AtReturn
  /\ GPIO_INT_ENABLE \in config.flags
  /\ p \in valid_ctrl_masks
  /\ pcr[p].idet # MCHP_GPIO_CTRL_IDET_DISABLE
  /\ p \notin girq_src[config.girq_id]
  /\ girq_src' = [girq_src EXCEPT ![config.girq_id] = @ \cup BIT(p)]
  /\ UNCHANGED << config, pcr, gpio_out, girq_en, callbacks, pc, args, rd,
                  ret, wlog, isr_vars >>

\* --------------------------------------------- gpio_gpio_xec_port_isr
\* what the routine does: event, handler invocations, value read or
\* written or passed, and the source register before and after
IsrRec(ev, calls, val, old, new) ==
  [ev |-> ev, calls |-> calls, val |-> val, old |-> old, new |-> new]

\* MCHP_GIRQ_RESULT: the result register reads source & enable
MCHP_GIRQ_RESULT(id) == girq_src[id] \cap girq_en[id]

\* line 313: the interrupt is taken and the result register is read
isr_read_result ==
  /\ isr_pc = "idle" /\ ~AtReturn
  /\ GPIO_INT_ENABLE \in config.flags
  /\ girq_result' = MCHP_GIRQ_RESULT(config.girq_id)
  /\ isr_log' = << IsrRec("result", {}, MCHP_GIRQ_RESULT(config.girq_id),
                          girq_src[config.girq_id], girq_src[config.girq_id]) >>
  /\ isr_pc' = "src_clear"
  /\ UNCHANGED << config, regs, callbacks, pc, args, rd, ret, wlog >>

\* isr_src_clear writing all ones: every source bit is cleared
isr_src_clear_all ==
  /\ isr_pc = "src_clear"
  /\ girq_src' = [girq_src EXCEPT ![config.girq_id] = {}]
  /\ isr_log' = Append(isr_log, IsrRec("src_clear", {}, girq_result,
                                       girq_src[config.girq_id], {}))
  /\ isr_pc' = "fire"
  /\ UNCHANGED << config, pcr, gpio_out, girq_en, callbacks, pc, args, rd,
                  ret, wlog, girq_result >>

\* line 316: girq_result is written to the write-1-to-clear source register
isr_src_clear ==
  /\ isr_pc = "src_clear"
  /\ LET new == girq_src[config.girq_id] \ girq_result
     IN  /\ girq_src' = [girq_src EXCEPT ![config.girq_id] = new]
         /\ isr_log' = Append(isr_log, IsrRec("src_clear", {}, girq_result,
                                              girq_src[config.girq_id], new))
  /\ isr_pc' = "fire"
  /\ UNCHANGED << config, pcr, gpio_out, girq_en, callbacks, pc, args, rd,
                  ret, wlog, girq_result >>

\* gpio_fire_callbacks(list, port, pins): the handler invocations, each
\* with the handler's callback and the pins argument it is given
gpio_fire_callbacks(list, pins) ==
  { [cb |-> c, pins |-> pins] : c \in {x \in list : (pin_mask(x) \cap pins) # {}} }

\* the port-wide operations a handler may call, and what each makes of
\* the port output register
PortOps == {"set_masked", "set_bits", "clear_bits", "toggle_bits"}
PortOp(op, out, m, v) ==
  CASE op = "set_masked" -> set_masked(out, m, v)
    [] op = "set_bits" -> set_bits(out, m)
    [] op = "clear_bits" -> clear_bits(out, m)
    [] op = "toggle_bits" -> toggle_bits(out, m)

\* one entry of wlog for a write made by a handler
HandlerRec(op, m, v, old, new) ==
  [reg |-> "OUT_ISR", op |-> op, m |-> m, v |-> v, old |-> old, new |-> new]

\* a handler about to be invoked by gpio_fire_callbacks calls a port-wide
\* operation while the thread is inside gpio_xec_configure; nothing can
\* interrupt the handler, so its read and write are one step.  One such
\* call is followed per gpio_xec_configure call.
handler_port_op(op, m, v) ==
  /\ isr_pc = "fire"
  /\ gpio_fire_callbacks(callbacks, girq_result) # {}
  /\ pc \in {"cfg_rd1", "cfg_wr1", "cfg_out_rd", "cfg_out_wr", "cfg_dir_rd",
             "cfg_dir_wr"}
  /\ \A i \in DOMAIN wlog : wlog[i].reg # "OUT_ISR"
  /\ gpio_out' = PortOp(op, gpio_out, m, v)
  /\ wlog' = Append(wlog, HandlerRec(op, m, v, gpio_out, gpio_out'))
  /\ UNCHANGED << config, pcr, girq_en, girq_src, callbacks, pc, args, rd, ret,
                  isr_vars >>

\* isr_fire passing the result register as it reads after the clear
isr_fire_reread ==
  /\ isr_pc = "fire"
  /\ isr_log' = Append(isr_log,
                  IsrRec("handlers",
                         gpio_fire_callbacks(callbacks, MCHP_GIRQ_RESULT(config.girq_id)),
                         MCHP_GIRQ_RESULT(config.girq_id),
                         girq_src[config.girq_id], girq_src[config.girq_id]))
  /\ isr_pc' = "done"
  /\ UNCHANGED << config, regs, callbacks, pc, args, rd, ret, wlog, girq_result >>

\* isr_fire with the source register cleared once more when the handlers
\* are through
isr_fire_clear_after ==
  /\ isr_pc = "fire"
  /\ girq_src' = [girq_src EXCEPT ![config.girq_id] = @ \ girq_result]
  /\ isr_log' = Append(isr_log,
                  IsrRec("handlers", gpio_fire_callbacks(callbacks, girq_result),
                         girq_result, girq_src[config.girq_id],
                         girq_src[config.girq_id] \ girq_result))
  /\ isr_pc' = "done"
  /\ UNCHANGED << config, pcr, gpio_out, girq_en, callbacks, pc, args, rd, ret,
                  wlog, girq_result >>

\* lines 318-319: gpio_fire_callbacks(&data->callbacks, dev, girq_result)
isr_fire ==
  /\ isr_pc = "fire"
  /\ isr_log' = Append(isr_log,
                  IsrRec("handlers", gpio_fire_callbacks(callbacks, girq_result),
                         girq_result, girq_src[config.girq_id], girq_src[config.girq_id]))
  /\ isr_pc' = "done"
  /\ UNCHANGED << config, regs, callbacks, pc, args, rd, ret, wlog, girq_result >>

\* return from interrupt
isr_return ==
  /\ isr_pc = "done"
  /\ isr_pc' = "idle"
  /\ girq_result' = {} /\ isr_log' = << >>
  /\ UNCHANGED << config, regs, callbacks, pc, args, rd, ret, wlog >>

\* ------------------------------------------------------ specification
\* nothing is in progress: the thread is outside the driver, no interrupt
InitIdle ==
  /\ pc = "idle"
  /\ pin = NoPin /\ flags = {} /\ mode = NoMode /\ trig = NoTrig
  /\ mask = {} /\ value = {}
  /\ rd = NoRd /\ ret = NoRet /\ wlog = << >>
  /\ isr_pc = "idle" /\ girq_result = {} /\ isr_log = << >>

\* the port after its init function: registers as reset or as other
\* software left them, nothing enabled in the aggregator, no callback
Init ==
  /\ config \in gpio_xec_port000_036_config
  /\ pcr \in [Pins -> InitCtrl]
  /\ gpio_out \in SUBSET Pins
  /\ girq_en = [g \in GirqIds |-> {}]
  /\ girq_src = [g \in GirqIds |-> {}]
  /\ callbacks = {}
  /\ InitIdle

\* the steps of gpio_xec_configure
NextConfigure ==
  \/ \E p \in Pins, f \in FlagSets : gpio_xec_configure(p, f)
  \/ cfg_rd1
  \/ cfg_wr1
  \/ cfg_out_rd
  \/ cfg_out_wr
  \/ cfg_dir_rd
  \/ cfg_dir_wr

\* the steps of gpio_xec_pin_interrupt_configure
NextInterruptConfigure ==
  \/ \E p \in Pins, m \in IntModes, t \in IntTrigs :
        gpio_xec_pin_interrupt_configure(p, m, t)
  \/ int_enclr
  \/ int_rd
  \/ int_wr
  \/ int_srcclr
  \/ int_enset

\* the steps of the port-wide operations
NextPort ==
  \/ \E m \in SUBSET Pins, v \in SUBSET Pins : gpio_xec_port_set_masked_raw(m, v)
  \/ set_masked_wr
  \/ \E m \in SUBSET Pins : gpio_xec_port_set_bits_raw(m)
  \/ set_bits_wr
  \/ \E m \in SUBSET Pins : gpio_xec_port_clear_bits_raw(m)
  \/ clear_bits_wr
  \/ \E m \in SUBSET Pins : gpio_xec_port_toggle_bits(m)
  \/ toggle_bits_wr
  \/ gpio_xec_port_get_raw

\* the hardware events and the steps of the interrupt service routine
NextInterrupt ==
  \/ \E p \in Pins : pin_event(p)
  \/ isr_read_result
  \/ isr_src_clear
  \/ isr_fire
  \/ isr_return

Next ==
  \/ NextConfigure
  \/ NextInterruptConfigure
  \/ NextPort
  \/ \E c \in Callbacks, set \in BOOLEAN : gpio_xec_manage_callback(c, set)
  \/ thread_return
  \/ NextInterrupt

\* every operation together.  The product of the pin-configuration and the
\* interrupt state runs to tens of millions of states, so the properties
\* are checked under the specifications below, one per concern.
Spec == Init /\ [][Next]_vars

\* pin configuration alone
NextCfg ==
  \/ NextConfigure
  \/ thread_return

SpecCfg == Init /\ [][NextCfg]_vars

\* interrupt configuration with the events and the interrupt service
\* routine running between its register accesses; no callback registered
InitInt ==
  /\ config \in gpio_xec_port000_036_config
  /\ \E w \in InitCtrl : pcr = [p \in Pins |-> w]
  /\ gpio_out = {}
  /\ girq_en = [g \in GirqIds |-> {}]
  /\ girq_src = [g \in GirqIds |-> {}]
  /\ callbacks = {}
  /\ InitIdle

NextInt ==
  \/ NextInterruptConfigure
  \/ thread_return
  \/ NextInterrupt

SpecInt == InitInt /\ [][NextInt]_vars

\* interrupt dispatch on an interrupt-capable port on which pin interrupts
\* were enabled earlier (both initial control words have a detection mode
\* that latches events); callbacks are registered and removed
InitIsr ==
  /\ config \in {c \in gpio_xec_port000_036_config : GPIO_INT_ENABLE \in c.flags}
  /\ \E w \in InitCtrl : pcr = [p \in Pins |-> w]
  /\ gpio_out = {}
  /\ \E e \in SUBSET valid_ctrl_masks :
        girq_en = [g \in GirqIds |-> IF g = config.girq_id THEN e ELSE {}]
  /\ girq_src = [g \in GirqIds |-> {}]
  /\ callbacks = {}
  /\ InitIdle

NextIsr ==
  \/ \E c \in Callbacks, set \in BOOLEAN : gpio_xec_manage_callback(c, set)
  \/ thread_return
  \/ NextInterrupt

SpecIsr == InitIsr /\ [][NextIsr]_vars

\* one call of gpio_xec_configure or gpio_xec_pin_interrupt_configure from
\* any register state earlier calls and events can have left behind
InitApi ==
  /\ config \in gpio_xec_port000_036_config
  /\ pcr \in [Pins -> InitCtrl]
  /\ gpio_out \in SUBSET Pins
  /\ \E e \in SUBSET valid_ctrl_masks :
        girq_en = [g \in GirqIds |-> IF g = config.girq_id THEN e ELSE {}]
  /\ \E e \in SUBSET valid_ctrl_masks :
        girq_src = [g \in GirqIds |-> IF g = config.girq_id THEN e ELSE {}]
  /\ callbacks = {}
  /\ InitIdle

NextApi ==
  \/ NextConfigure
  \/ NextInterruptConfigure
  \/ thread_exit

SpecApi == InitApi /\ [][NextApi]_vars

\* ------------------------------------------------------------ properties
InConfigure ==
  pc \in {"cfg_rd1", "cfg_wr1", "cfg_out_rd", "cfg_out_wr", "cfg_dir_rd",
          "cfg_dir_wr", "cfg_ret"}
InInterruptConfigure ==
  pc \in {"int_enclr", "int_rd", "int_wr", "int_srcclr", "int_enset", "int_ret"}

WantsLevel(f) == GPIO_OUTPUT_INIT_HIGH \in f \/ GPIO_OUTPUT_INIT_LOW \in f

\* C1: glitch-free output enable.  In gpio_xec_configure with OUTPUT
\* requested the port output register is only written while the pin's
\* direction field is input, every write of the output register comes
\* after a control-word write with direction = input and before any
\* control-word write with direction = output, and a call that returns 0
\* has made exactly the writes control word (input), output register (if
\* an initial level is requested, changing the pin's bit only), control
\* word (output), in this order.
C1_GlitchFreeOutputEnable ==
  (InConfigure /\ GPIO_OUTPUT \in flags) =>
    /\ (pc = "cfg_out_wr" => pcr[pin].dir = MCHP_GPIO_CTRL_DIR_INPUT)
    /\ \A i \in DOMAIN wlog :
         /\ (wlog[i].reg = "OUT" =>
               /\ i > 1
               /\ wlog[i - 1].reg = "PCR1"
               /\ wlog[i - 1].new.dir = MCHP_GPIO_CTRL_DIR_INPUT
               /\ wlog[i].new \ BIT(pin) = wlog[i].old \ BIT(pin))
         /\ (wlog[i].reg = "PCR1" /\ wlog[i].new.dir = MCHP_GPIO_CTRL_DIR_OUTPUT =>
               \A j \in DOMAIN wlog : wlog[j].reg = "OUT" => j < i)
    /\ (pc = "cfg_ret" /\ ret = OK =>
          /\ RegNames(wlog) = IF WantsLevel(flags)
                                THEN << "PCR1", "OUT", "PCR1" >>
                                ELSE << "PCR1", "PCR1" >>
          /\ wlog[1].new.dir = MCHP_GPIO_CTRL_DIR_INPUT
          /\ wlog[Len(wlog)].new.dir = MCHP_GPIO_CTRL_DIR_OUTPUT)

\* a pin that was driving low is reconfigured as an output initially high
C1_Witness ==
  /\ pc = "cfg_ret" /\ ret = OK
  /\ flags = {GPIO_OUTPUT, GPIO_OUTPUT_INIT_HIGH}
  /\ Len(wlog) = 3
  /\ wlog[1].old.dir = MCHP_GPIO_CTRL_DIR_OUTPUT
  /\ pin \notin wlog[2].old /\ pin \in gpio_out
  /\ pcr[pin].dir = MCHP_GPIO_CTRL_DIR_OUTPUT

\* C2: interrupt enable ordering.  From the write of the enable-clear
\* register until the write of the enable-set register the pin's enable
\* bit is clear, the enable-set write happens only with the new detection
\* mode in the control word, and a call that returns 0 has written, in
\* this order, enable-clear (pin's bit), the control word (detection
\* mode) and, when mode is not Disabled, source (pin's bit cleared) and
\* enable-set (pin's bit set).
C2_InterruptEnableOrdering ==
  InInterruptConfigure =>
    /\ (pc \in {"int_rd", "int_wr", "int_srcclr", "int_enset"} =>
          /\ pin \notin girq_en[config.girq_id]
          /\ wlog[1].reg = "GIRQ_ENCLR"
          /\ wlog[1].new = wlog[1].old \ BIT(pin))
    /\ (pc = "int_enset" =>
          /\ pcr[pin].idet = int_idet(mode, trig)
          /\ RegNames(wlog) = << "GIRQ_ENCLR", "PCR1", "GIRQ_SRC" >>)
    /\ (pc = "int_ret" /\ ret = OK =>
          /\ RegNames(wlog) = IF mode = GPIO_INT_MODE_DISABLED
                                THEN << "GIRQ_ENCLR", "PCR1" >>
                                ELSE << "GIRQ_ENCLR", "PCR1", "GIRQ_SRC", "GIRQ_ENSET" >>
          /\ pin \notin wlog[1].new
          /\ wlog[2].new.idet = int_idet(mode, trig)
          /\ (mode # GPIO_INT_MODE_DISABLED =>
                /\ wlog[3].new = wlog[3].old \ BIT(pin)
                /\ wlog[4].old = wlog[1].new
                /\ wlog[4].new = wlog[4].old \cup BIT(pin)))

\* an enabled pin with a stale pending event is reprogrammed to an edge
C2_Witness ==
  /\ pc = "int_ret" /\ ret = OK
  /\ mode = GPIO_INT_MODE_EDGE
  /\ Len(wlog) = 4
  /\ pin \in wlog[1].old
  /\ wlog[2].old.idet # wlog[2].new.idet
  /\ pin \in wlog[3].old
  /\ pin \in girq_en[config.girq_id]

\* C3: interrupt dispatch clears before it calls.  The routine's first
\* access reads the result register (source & enable) into girq_result,
\* its second writes girq_result to the source register, which clears
\* exactly the bits of girq_result and leaves the other source bits as
\* they were, and handlers are invoked only after that write.
C3_ClearBeforeCall ==
  isr_pc # "idle" =>
    /\ Len(isr_log) >= 1
    /\ isr_log[1].ev = "result"
    /\ isr_log[1].val = isr_log[1].old \cap girq_en[config.girq_id]
    /\ girq_result = isr_log[1].val
    /\ (isr_pc = "src_clear" => Len(isr_log) = 1)
    /\ (isr_pc \in {"fire", "done"} =>
          /\ isr_log[2].ev = "src_clear"
          /\ isr_log[2].val = girq_result
          /\ isr_log[2].new = isr_log[2].old \ girq_result
          /\ isr_log[2].old \ isr_log[2].new = isr_log[2].old \cap girq_result)
    /\ (isr_pc = "fire" => Len(isr_log) = 2)
    /\ \A i \in DOMAIN isr_log : isr_log[i].ev = "handlers" => i = 3

\* a dispatch that cleared one source bit, left another (latched but not
\* enabled) set, and then invoked a handler
C3_Witness ==
  /\ isr_pc = "done"
  /\ girq_result # {}
  /\ isr_log[2].new # {}
  /\ isr_log[2].old # isr_log[2].new
  /\ isr_log[3].calls # {}

\* C4: handler fan-out.  A dispatch with result snapshot R invokes exactly
\* the registered callbacks whose pin mask intersects R (none when R is
\* empty), each once, and passes the whole of R to each of them.
C4_HandlerFanOut ==
  isr_pc = "done" =>
    LET R == isr_log[1].val
        calls == isr_log[3].calls
    IN  /\ \A c \in Callbacks :
              (c \in callbacks /\ (pin_mask(c) \cap R) # {})
                <=> (\E k \in calls : k.cb = c)
        /\ \A k \in calls : k.pins = R
        /\ Cardinality(calls) = Cardinality({k.cb : k \in calls})
        /\ (R = {} => calls = {})

\* a handler interested in one pin receives a result with two pins set
C4_Witness ==
  /\ isr_pc = "done"
  /\ \E k \in isr_log[3].calls :
        /\ k.pins = isr_log[1].val
        /\ (pin_mask(k.cb) \cap k.pins) # k.pins
  /\ Cardinality(callbacks) >= 2

IsError(r) == r \in {EINVAL, ENOTSUP}

\* C5: a pin outside the valid-pin bitmap.  gpio_xec_configure (any
\* flags) and gpio_xec_pin_interrupt_configure (any mode and trigger)
\* called with such a pin return -EINVAL straight from their entry,
\* without reaching any register access and with no register write made.
C5_InvalidPinNoWrite ==
  ((InConfigure \/ InInterruptConfigure) /\ pin \notin valid_ctrl_masks) =>
    /\ pc \in {"cfg_ret", "int_ret"}
    /\ ret = EINVAL
    /\ wlog = << >>

\* an interrupt is requested for a pin the port does not have
C5_Witness ==
  /\ pc = "int_ret"
  /\ pin \in Pins \ valid_ctrl_masks
  /\ mode = GPIO_INT_MODE_EDGE /\ trig = GPIO_INT_TRIG_BOTH
  /\ GPIO_INT_ENABLE \in config.flags
  /\ ret = EINVAL
  /\ girq_en[config.girq_id] # {}

\* C6: validate-then-commit.  After every call of gpio_xec_configure or
\* gpio_xec_pin_interrupt_configure that returns an error, every register
\* holds the value it had before the call: the call made no write, or
\* none that changed a register.
C6_ValidateThenCommit ==
  (pc \in {"cfg_ret", "int_ret"} /\ IsError(ret)) =>
    \A i \in DOMAIN wlog : wlog[i].new = wlog[i].old

\* C7 as stated: every pin 0..31, valid or not, with SINGLE_ENDED and
\* without the open-drain line selection gets -ENOTSUP.
C7_SingleEndedAnyPin ==
  (pc = "cfg_ret" /\ GPIO_SINGLE_ENDED \in flags /\ GPIO_LINE_OPEN_DRAIN \notin flags)
    => ret = ENOTSUP

\* C7, amended: for a pin valid for the port, flags with SINGLE_ENDED and
\* without the open-drain line selection get -ENOTSUP and no register is
\* written; for a pin outside the valid-pin bitmap the same flags get
\* -EINVAL, because the pin is checked first.
C7_SingleEndedValidPin ==
  (pc = "cfg_ret" /\ GPIO_SINGLE_ENDED \in flags /\ GPIO_LINE_OPEN_DRAIN \notin flags)
    => /\ ret = IF pin \in valid_ctrl_masks THEN ENOTSUP ELSE EINVAL
       /\ wlog = << >>

\* open-source output is requested for a pin the port has
C7_Witness ==
  /\ pc = "cfg_ret"
  /\ pin \in valid_ctrl_masks
  /\ flags = {GPIO_OUTPUT, GPIO_OUTPUT_INIT_HIGH, GPIO_SINGLE_ENDED}
  /\ ret = ENOTSUP

HasWrite(log, reg) == \E i \in DOMAIN log : log[i].reg = reg

\* C8 as stated: on a valid pin of an interrupt-capable port, mode Edge
\* or Level with a trigger outside {Low, High, Both} gets -EINVAL and no
\* detection mode is programmed.
C8_InvalidTriggerEdgeOrLevel ==
  ( /\ pc = "int_ret"
    /\ pin \in valid_ctrl_masks
    /\ GPIO_INT_ENABLE \in config.flags
    /\ mode \in {GPIO_INT_MODE_EDGE, GPIO_INT_MODE_LEVEL}
    /\ trig \notin IntTrigEnum )
    => (ret = EINVAL /\ ~HasWrite(wlog, "PCR1"))

\* C8, amended: on a valid pin of an interrupt-capable port, mode Edge
\* with a trigger outside {Low, High, Both} gets -EINVAL and the control
\* word is not written; mode Level with such a trigger (as with any
\* trigger other than High) is accepted, returns 0 and programs level-low.
C8_InvalidTriggerEdgeOnly ==
  ( /\ pc = "int_ret"
    /\ pin \in valid_ctrl_masks
    /\ GPIO_INT_ENABLE \in config.flags
    /\ trig \notin IntTrigEnum )
    => /\ (mode = GPIO_INT_MODE_EDGE =>
             /\ ret = EINVAL
             /\ ~HasWrite(wlog, "PCR1")
             /\ ~HasWrite(wlog, "GIRQ_ENSET"))
       /\ (mode = GPIO_INT_MODE_LEVEL =>
             /\ ret = OK
             /\ pcr[pin].idet = MCHP_GPIO_CTRL_IDET_LVL_LO)

\* an edge interrupt with an undefined trigger is refused on a pin whose
\* detection mode is rising edge
C8_Witness ==
  /\ pc = "int_ret"
  /\ pin \in valid_ctrl_masks
  /\ GPIO_INT_ENABLE \in config.flags
  /\ mode = GPIO_INT_MODE_EDGE /\ trig = GPIO_INT_TRIG_OTHER
  /\ ret = EINVAL
  /\ pcr[pin].idet = MCHP_GPIO_CTRL_IDET_REDGE

\* C9: explicit disable.  When gpio_xec_pin_interrupt_configure with mode
\* Disabled returns 0 (any trigger, any pin state before, port with or
\* without interrupt capability), the pin's detection field holds the
\* disabled encoding, not the all-zero level-low encoding, and the pin's
\* enable bit is clear.
C9_ExplicitDisable ==
  (pc = "int_ret" /\ mode = GPIO_INT_MODE_DISABLED /\ ret = OK) =>
    /\ pin \in valid_ctrl_masks
    /\ pcr[pin].idet = MCHP_GPIO_CTRL_IDET_DISABLE
    /\ pcr[pin].idet # Pcr1Zero.idet
    /\ pin \notin girq_en[config.girq_id]

\* an enabled falling-edge interrupt is disabled
C9_Witness ==
  /\ pc = "int_ret" /\ mode = GPIO_INT_MODE_DISABLED /\ ret = OK
  /\ Len(wlog) = 2
  /\ pin \in wlog[1].old
  /\ wlog[2].old.idet = MCHP_GPIO_CTRL_IDET_FEDGE
  /\ pcr[pin].idet = MCHP_GPIO_CTRL_IDET_DISABLE

\* C10: detection-mode mapping.  When gpio_xec_pin_interrupt_configure
\* returns 0 on an interrupt-capable port, the pin's detection field is
\* level-high for (Level, High), level-low for (Level, Low), falling-edge
\* for (Edge, Low), rising-edge for (Edge, High), both-edges for
\* (Edge, Both), and in each of these cases the pin's enable bit is set.
C10_DetectionModeMapping ==
  ( /\ pc = "int_ret" /\ ret = OK
    /\ GPIO_INT_ENABLE \in config.flags
    /\ << mode, trig >> \in
         { << GPIO_INT_MODE_LEVEL, GPIO_INT_TRIG_HIGH >>,
           << GPIO_INT_MODE_LEVEL, GPIO_INT_TRIG_LOW >>,
           << GPIO_INT_MODE_EDGE, GPIO_INT_TRIG_LOW >>,
           << GPIO_INT_MODE_EDGE, GPIO_INT_TRIG_HIGH >>,
           << GPIO_INT_MODE_EDGE, GPIO_INT_TRIG_BOTH >> } )
    => /\ pin \in valid_ctrl_masks
       /\ pcr[pin].idet =
            CASE mode = GPIO_INT_MODE_LEVEL /\ trig = GPIO_INT_TRIG_HIGH
                   -> MCHP_GPIO_CTRL_IDET_LVL_HI
              [] mode = GPIO_INT_MODE_LEVEL /\ trig = GPIO_INT_TRIG_LOW
                   -> MCHP_GPIO_CTRL_IDET_LVL_LO
              [] mode = GPIO_INT_MODE_EDGE /\ trig = GPIO_INT_TRIG_LOW
                   -> MCHP_GPIO_CTRL_IDET_FEDGE
              [] mode = GPIO_INT_MODE_EDGE /\ trig = GPIO_INT_TRIG_HIGH
                   -> MCHP_GPIO_CTRL_IDET_REDGE
              [] mode = GPIO_INT_MODE_EDGE /\ trig = GPIO_INT_TRIG_BOTH
                   -> MCHP_GPIO_CTRL_IDET_BEDGE
       /\ pin \in girq_en[config.girq_id]

\* a disabled pin is given a falling-edge interrupt
C10_Witness ==
  /\ pc = "int_ret" /\ ret = OK
  /\ GPIO_INT_ENABLE \in config.flags
  /\ mode = GPIO_INT_MODE_EDGE /\ trig = GPIO_INT_TRIG_LOW
  /\ wlog[2].old.idet = MCHP_GPIO_CTRL_IDET_DISABLE
  /\ pcr[pin].idet = MCHP_GPIO_CTRL_IDET_FEDGE
  /\ pin \notin wlog[1].old
  /\ pin \in girq_en[config.girq_id]

\* ---------------------------------------------------------------- C11
\* C11: gpio_xec_configure changes only the direction, input-pad-disable,
\* power-gate, pull, buffer-type and AOD fields of the control word of its
\* pin, gpio_xec_pin_interrupt_configure changes only the interrupt
\* detection field of the control word of its pin; no step changes any
\* other field of that word or any field of another pin's word
C11_FieldPreservation ==
  [][ \A q \in Pins : \A f \in CtrlFields :
        pcr'[q][f] # pcr[q][f]
          => /\ q = pin
             /\ \/ InConfigure /\ f \in cfg_mask
                \/ InInterruptConfigure /\ f = MCHP_GPIO_CTRL_IDET_MASK ]_vars

\* a configure call has rewritten a control word that selects an alternate
\* function and a both-edges detection; both are still in place
C11_Witness ==
  /\ pc = "cfg_ret" /\ ret = OK
  /\ Len(wlog) >= 1 /\ wlog[1].reg = "PCR1"
  /\ wlog[1].old = Pcr1Foreign
  /\ pcr[pin] # Pcr1Foreign
  /\ pcr[pin].other = CTRL_OTHER_ALT
  /\ pcr[pin].idet = MCHP_GPIO_CTRL_IDET_BEDGE

\* ---------------------------------------------------------------- C12
\* two consecutive calls of gpio_xec_configure with the same arguments, from
\* every control word, with no interrupt in between
InitTwice ==
  /\ InitIdle
  /\ config \in gpio_xec_port000_036_config
  /\ GPIO_INT_ENABLE \in config.flags
  /\ pcr \in {[q \in Pins |-> w] : w \in CtrlWords}
  /\ gpio_out = {}
  /\ girq_en = [i \in GirqIds |-> {}]
  /\ girq_src = [i \in GirqIds |-> {}]
  /\ callbacks = {}

NextTwice ==
  \/ NextConfigure
  \/ configure_again
  \/ thread_exit

SpecTwice == InitTwice /\ [][NextTwice]_vars

\* C12: when the second of two consecutive gpio_xec_configure(pin, flags)
\* calls has returned, the pin's control word equals the control word the
\* first call left, for every valid pin, accepted flag set and initial word
C12_ConfigureIdempotent ==
  (pc = "cfg_ret" /\ ret = OK)
    => \A i \in DOMAIN wlog :
         wlog[i].reg = "CALL" => pcr[pin] = wlog[i].old

\* the second call of an output configuration has returned: it first put
\* the direction back to input, the first call had rewritten the word
C12_Witness ==
  /\ pc = "cfg_ret" /\ ret = OK
  /\ GPIO_OUTPUT \in flags
  /\ Len(wlog) = 5 /\ wlog[3].reg = "CALL"
  /\ wlog[1].old # wlog[3].old
  /\ wlog[4].old.dir = MCHP_GPIO_CTRL_DIR_OUTPUT
  /\ wlog[4].new.dir = MCHP_GPIO_CTRL_DIR_INPUT
  /\ pcr[pin] = wlog[3].old

\* ----------------------------------------------------------- C13 - C15
\* the port-wide operations alone, called one after the other
InitBulk ==
  /\ InitIdle
  /\ config \in gpio_xec_port000_036_config
  /\ pcr = [q \in Pins |-> Pcr1Zero]
  /\ gpio_out \in SUBSET Pins
  /\ girq_en = [i \in GirqIds |-> {}]
  /\ girq_src = [i \in GirqIds |-> {}]
  /\ callbacks = {}

NextBulk ==
  \/ NextPort
  \/ get_after_set_bits
  \/ toggle_again
  \/ thread_return

SpecBulk == InitBulk /\ [][NextBulk]_vars

\* gpio_xec_port_get_raw has returned right after gpio_xec_port_set_bits_raw
GetAfterSetBits == pc = "get_ret" /\ wlog # << >>

\* C13 as stated: with the input register mirroring the output register,
\* set_bits(mask) followed by get() returns mask
C13_RoundTripReturnsMask ==
  GetAfterSetBits => value = mask

\* C13 amended: set_bits(mask) followed by get() returns the prior value
\* of the output register with the bits of mask set; it contains mask and
\* equals mask exactly when the prior value had no bit outside mask
C13_RoundTripReturnsPriorOrMask ==
  GetAfterSetBits
    => /\ ret = OK
       /\ value = wlog[1].old \cup mask
       /\ mask \subseteq value
       /\ (value = mask) <=> (wlog[1].old \subseteq mask)

\* a bit outside the mask was set before the call and is read back
C13_Witness ==
  /\ GetAfterSetBits
  /\ mask # {} /\ wlog[1].old \ mask # {}
  /\ wlog[1].new # wlog[1].old
  /\ value = wlog[1].new

\* C14: when the second of two consecutive gpio_xec_port_toggle_bits(mask)
\* calls has returned, with no write in between, the port output register
\* holds the value it had before the first call
C14_ToggleInvolution ==
  (pc = "toggle_bits_ret" /\ Len(wlog) = 2)
    => /\ ret = OK
       /\ wlog[2].old = wlog[1].new
       /\ gpio_out = wlog[1].old

\* the first call changed the register, setting one bit and clearing
\* another; the second call has undone it
C14_Witness ==
  /\ pc = "toggle_bits_ret" /\ Len(wlog) = 2
  /\ wlog[1].new \ wlog[1].old # {}
  /\ wlog[1].old \ wlog[1].new # {}
  /\ gpio_out = wlog[1].old

\* C15: gpio_xec_port_set_masked_raw(mask, value) returns 0 and leaves the
\* port output register at (out & ~mask) | (mask & value): the bits outside
\* mask keep their prior value, the bits inside mask take the value's bits,
\* and pins outside valid_ctrl_masks are treated like every other bit
C15_SetMasked ==
  pc = "set_masked_ret"
    => /\ ret = OK
       /\ Len(wlog) = 1 /\ wlog[1].reg = "OUT"
       /\ gpio_out = wlog[1].new
       /\ gpio_out = (wlog[1].old \ mask) \cup (mask \cap value)
       /\ \A b \in Pins \ mask : b \in gpio_out <=> b \in wlog[1].old
       /\ \A b \in mask : b \in gpio_out <=> b \in value

\* the bit of a pin outside valid_ctrl_masks is changed, a bit of the value
\* outside the mask is ignored, and a bit outside the mask stays set
C15_Witness ==
  /\ pc = "set_masked_ret" /\ ret = OK
  /\ \E b \in mask \ valid_ctrl_masks :
        (b \in gpio_out) # (b \in wlog[1].old)
  /\ \E b \in value \ mask : b \notin gpio_out
  /\ \E b \in gpio_out \ mask : b \in wlog[1].old

\* ---------------------------------------------------------------- C16
\* the interrupt is taken because the result register is not zero
isr_taken ==
  isr_read_result /\ MCHP_GIRQ_RESULT(config.girq_id) # {}

\* SpecIsr with its scheduling: the service routine and the handlers run
\* to completion, a function at its return returns, and the interrupt
\* controller takes the interrupt while the result register is not zero
\* (strongly fair, since the thread's returns are instants without duration)
SpecIsrFair ==
  /\ SpecIsr
  /\ WF_vars(isr_src_clear)
  /\ WF_vars(isr_fire)
  /\ WF_vars(isr_return)
  /\ WF_vars(thread_return)
  /\ SF_vars(isr_taken)

\* source bit p of an enabled pin is latched after line 316 of the running
\* service routine
LatchedWhileHandlersRun(p) ==
  /\ isr_pc \in {"fire", "done"}
  /\ p \in girq_src[config.girq_id]
  /\ p \in girq_en[config.girq_id]

\* the service routine has been entered anew with p in its snapshot
DispatchedAnew(p) == isr_pc = "src_clear" /\ p \in girq_result

\* the handlers of this dispatch have run, every registered callback
\* interested in p among them
HandlersInvokedFor(p) ==
  /\ isr_pc = "done" /\ p \in girq_result
  /\ \A c \in callbacks :
        p \in pin_mask(c)
          => [cb |-> c, pins |-> girq_result] \in isr_log[Len(isr_log)].calls

\* C16: a source bit of an enabled pin that is latched once the service
\* routine has cleared the source register is not cleared by the rest of
\* the routine, so it is still set when the routine returns; and unless the
\* pin is disabled it leads to a new run of the routine whose snapshot has
\* the pin's bit and which invokes the handlers interested in the pin
C16_NoLostEdge ==
  /\ [][ (isr_pc \in {"fire", "done"})
          => girq_src[config.girq_id] \subseteq girq_src'[config.girq_id] ]_vars
  /\ \A p \in valid_ctrl_masks :
        /\ LatchedWhileHandlersRun(p)
             ~> (DispatchedAnew(p) \/ p \notin girq_en[config.girq_id])
        /\ DispatchedAnew(p) ~> HandlersInvokedFor(p)

\* the routine cleared the whole source register, the handlers of pin 0
\* have run, and pin 0 has been latched again before the routine returns
C16_Witness ==
  /\ isr_pc = "done"
  /\ 0 \in girq_result
  /\ isr_log[2].ev = "src_clear" /\ isr_log[2].new = {}
  /\ \E c \in callbacks : 0 \in pin_mask(c)
  /\ LatchedWhileHandlersRun(0)

\* ---------------------------------------------------------------- C17
\* one gpio_xec_configure call on an interrupt-capable port where pin 0 has
\* its interrupt detection on and enabled and the callbacks interested in
\* pin 0 are registered, all outputs low or all high; the service routine
\* may run between any two steps of the call and its handlers may write
\* the port output register
InitRace ==
  /\ InitIdle
  /\ config \in gpio_xec_port000_036_config
  /\ GPIO_INT_ENABLE \in config.flags
  /\ pcr = [q \in Pins |->
              IF q = 0 THEN Pcr1Zero
              ELSE [Pcr1Zero EXCEPT !.idet = MCHP_GPIO_CTRL_IDET_DISABLE]]
  /\ gpio_out \in {{}, Pins}
  /\ girq_en = [i \in GirqIds |-> IF i = config.girq_id THEN BIT(0) ELSE {}]
  /\ girq_src = [i \in GirqIds |-> {}]
  /\ callbacks = {c \in Callbacks : 0 \in pin_mask(c)}

\* the arguments of a handler's call; for set_masked the bits of the value
\* outside the mask make no difference and are left out
HandlerCalls ==
  { << op, m, v >> \in PortOps \X (SUBSET Pins) \X (SUBSET Pins) :
      IF op = "set_masked" THEN v \subseteq m ELSE v = {} }

NextRace ==
  \/ NextConfigure
  \/ thread_exit
  \/ NextInterrupt
  \/ \E c \in HandlerCalls : handler_port_op(c[1], c[2], c[3])

SpecRace == InitRace /\ [][NextRace]_vars

\* the first value of the port output register in the current call: the
\* value before the first write on record, or the present one
RaceOutWrites == {i \in DOMAIN wlog : wlog[i].reg \in {"OUT", "OUT_ISR"}}
RaceOut0 ==
  IF RaceOutWrites = {} THEN gpio_out
  ELSE wlog[CHOOSE i \in RaceOutWrites : \A j \in RaceOutWrites : i <= j].old

\* the pin's control word before the first control-word write on record
RaceWord0 ==
  LET ws == {i \in DOMAIN wlog : wlog[i].reg = "PCR1"}
  IN  wlog[CHOOSE i \in ws : \A j \in ws : i <= j].old

\* what gpio_xec_configure(pin, flags), run alone, makes of the port output
\* register and of the pin's control word
RaceConfigureOut(out) ==
  IF GPIO_OUTPUT \in flags /\ GPIO_OUTPUT_INIT_HIGH \in flags
    THEN set_bits(out, BIT(pin))
  ELSE IF GPIO_OUTPUT \in flags /\ GPIO_OUTPUT_INIT_LOW \in flags
    THEN clear_bits(out, BIT(pin))
  ELSE out
RaceConfigureWord(w) ==
  LET w1 == MaskedWrite(w, cfg_mask, cfg_pcr1(flags))
  IN  IF GPIO_OUTPUT \in flags
        THEN [w1 EXCEPT !.dir = MCHP_GPIO_CTRL_DIR_OUTPUT]
        ELSE w1

\* what the handler's call on record, run alone, makes of the register
RaceHandlerOut(out) ==
  IF \E i \in DOMAIN wlog : wlog[i].reg = "OUT_ISR"
    THEN LET h == wlog[CHOOSE i \in DOMAIN wlog : wlog[i].reg = "OUT_ISR"]
         IN  PortOp(h.op, out, h.m, h.v)
    ELSE out

\* C17: when a successful gpio_xec_configure call during which the service
\* routine ran has returned, the port output register holds what the call
\* and the handler's operation produce in one of the two serial orders, and
\* the pin's control word is the one the call produces
C17_ConfigureSerializable ==
  (pc = "cfg_ret" /\ ret = OK)
    => /\ gpio_out \in { RaceHandlerOut(RaceConfigureOut(RaceOut0)),
                         RaceConfigureOut(RaceHandlerOut(RaceOut0)) }
       /\ pcr[pin] = RaceConfigureWord(RaceWord0)

\* ---------------------------------------------------------------- C18
\* one gpio_xec_pin_interrupt_configure call on an interrupt-capable port
\* with every callback registered and any of the valid pins enabled; events
\* and the service routine may come between any two steps of the call
InitWin ==
  /\ InitIdle
  /\ config \in gpio_xec_port000_036_config
  /\ GPIO_INT_ENABLE \in config.flags
  /\ \E w \in InitCtrl : pcr = [q \in Pins |-> w]
  /\ gpio_out = {}
  /\ \E e \in SUBSET valid_ctrl_masks :
        girq_en = [i \in GirqIds |-> IF i = config.girq_id THEN e ELSE {}]
  /\ girq_src = [i \in GirqIds |-> {}]
  /\ callbacks = Callbacks

NextWin ==
  \/ NextInterruptConfigure
  \/ thread_exit
  \/ NextInterrupt

SpecWin == InitWin /\ [][NextWin]_vars

\* the call has written the enable-clear register (line 175) and has not
\* yet written the enable-set register (line 225)
InReprogramWindow == pc \in {"int_rd", "int_wr", "int_srcclr", "int_enset"}

\* C18: while gpio_xec_pin_interrupt_configure(pin, ...) is between its
\* enable-clear write and its enable-set write, a run of the service routine
\* has a snapshot without the pin's bit, its write to the source register
\* leaves the pin's source bit as it was, and every handler it invokes is
\* given a pins argument without the pin
C18_NoDispatchWhileReprogrammed ==
  (InReprogramWindow /\ isr_pc # "idle")
    => /\ pin \notin girq_result
       /\ \A i \in DOMAIN isr_log :
            /\ isr_log[i].ev = "result" => pin \notin isr_log[i].val
            /\ isr_log[i].ev = "src_clear"
                 => (pin \in isr_log[i].old <=> pin \in isr_log[i].new)
            /\ isr_log[i].ev = "handlers"
                 => \A h \in isr_log[i].calls : pin \notin h.pins

\* in the window the pin's source bit is latched and was enabled before the
\* call; the routine runs on account of another pin, has invoked a handler
\* and has left the pin's source bit set
C18_Witness ==
  /\ InReprogramWindow /\ isr_pc = "done"
  /\ pin \in wlog[1].old
  /\ pin \in girq_src[config.girq_id]
  /\ girq_result # {}
  /\ isr_log[3].calls # {}

\* ---------------------------------------------------------------- C19
\* C19: on a port without GPIO_INT_ENABLE, no write of
\* gpio_xec_pin_interrupt_configure changes an aggregator register, a call
\* for a valid pin with a mode other than GPIO_INT_MODE_DISABLED returns
\* -ENOTSUP, and a call with GPIO_INT_MODE_DISABLED writes the pin's
\* control word only
C19_NonCapableNoAggregatorWrite ==
  (GPIO_INT_ENABLE \notin config.flags /\ InInterruptConfigure)
    => /\ \A i \in DOMAIN wlog :
            wlog[i].reg \in {"GIRQ_ENCLR", "GIRQ_SRC", "GIRQ_ENSET"}
              => wlog[i].new = wlog[i].old
       /\ (pc = "int_ret" /\ pin \in valid_ctrl_masks
             /\ mode # GPIO_INT_MODE_DISABLED) => ret = ENOTSUP
       /\ (pc = "int_ret" /\ ret = OK /\ mode = GPIO_INT_MODE_DISABLED)
            => RegNames(wlog) = << "PCR1" >>

\* ---------------------------------------------------------------- C20
\* the port output register before the first write of the call on record
CfgOut0 ==
  IF HasWrite(wlog, "OUT")
    THEN wlog[CHOOSE i \in DOMAIN wlog : wlog[i].reg = "OUT"].old
    ELSE gpio_out

\* what holds after a successful gpio_xec_configure whatever the levels
\* requested: the direction, the case of no level, no write of the port
\* output register without GPIO_OUTPUT, the bits of the other pins
CfgOutputFrame ==
  /\ GPIO_OUTPUT \in flags
       => /\ pcr[pin].dir = MCHP_GPIO_CTRL_DIR_OUTPUT
          /\ ~WantsLevel(flags) => (pin \in gpio_out <=> pin \in CfgOut0)
  /\ GPIO_OUTPUT \notin flags
       => /\ pcr[pin].dir = MCHP_GPIO_CTRL_DIR_INPUT
          /\ ~HasWrite(wlog, "OUT")
  /\ \A q \in Pins \ {pin} : q \in gpio_out <=> q \in CfgOut0

\* C20 as stated: after a successful gpio_xec_configure with GPIO_OUTPUT the
\* pin's output bit is 1 when GPIO_OUTPUT_INIT_HIGH is set and 0 when
\* GPIO_OUTPUT_INIT_LOW is set
C20_InitLevelLowWhenever ==
  (pc = "cfg_ret" /\ ret = OK)
    => /\ CfgOutputFrame
       /\ GPIO_OUTPUT \in flags
            => /\ GPIO_OUTPUT_INIT_HIGH \in flags => pin \in gpio_out
               /\ GPIO_OUTPUT_INIT_LOW \in flags => pin \notin gpio_out

\* C20 amended: after a successful gpio_xec_configure with GPIO_OUTPUT the
\* pin's direction is output and its output bit is 1 when
\* GPIO_OUTPUT_INIT_HIGH is set, 0 when GPIO_OUTPUT_INIT_LOW is set and
\* GPIO_OUTPUT_INIT_HIGH is not, and unchanged when neither is set; without
\* GPIO_OUTPUT the direction is input and the port output register is not
\* written; the output bits of the other pins are unchanged in every case
C20_InitLevelHighFirst ==
  (pc = "cfg_ret" /\ ret = OK)
    => /\ CfgOutputFrame
       /\ GPIO_OUTPUT \in flags
            => /\ GPIO_OUTPUT_INIT_HIGH \in flags => pin \in gpio_out
               /\ (GPIO_OUTPUT_INIT_LOW \in flags
                     /\ GPIO_OUTPUT_INIT_HIGH \notin flags) => pin \notin gpio_out

\* both levels were requested for a pin whose output bit was clear: the
\* bit is now set, another pin's bit is still set
C20_Witness ==
  /\ pc = "cfg_ret" /\ ret = OK
  /\ {GPIO_OUTPUT, GPIO_OUTPUT_INIT_LOW, GPIO_OUTPUT_INIT_HIGH} \subseteq flags
  /\ pin \notin CfgOut0 /\ pin \in gpio_out
  /\ gpio_out \ BIT(pin) # {}
  /\ pcr[pin].dir = MCHP_GPIO_CTRL_DIR_OUTPUT

====
